---- MODULE Spec2Model ----
(***************************************************************************)
(* Model of flash() (src/src/flash.ts), the orchestration of one firmware  *)
(* flashing run.  One action per segment of the async function between two *)
(* suspension points; the device (esploader / espStub) and the network     *)
(* (fetch) are collaborators whose calls resolve or reject                 *)
(* nondeterministically.  The variable log records, in program order, the  *)
(* state-changed events fired and the collaborator calls made, returned    *)
(* and thrown.                                                             *)
(***************************************************************************)
EXTENDS Integers, Sequences, FiniteSets, TLC

\* ---------------------------------------------------------------- bounds
MaxBuilds == 2      \* builds in a manifest
MaxParts  == 2      \* parts in a build
MaxSize   == 1      \* bytes in a downloaded part
MaxChunks == 2      \* progress callbacks delivered in one run

\* ------------------------------------------------------------ data model
\* const.ts, State
INITIALIZING == "INITIALIZING"
MANIFEST     == "MANIFEST"
PREPARING    == "PREPARING"
ERASING      == "ERASING"
WRITING      == "WRITING"
FINISHED     == "FINISHED"
ERROR        == "ERROR"

\* const.ts, FlashError
FAILED_INITIALIZING      == "failed_initialize"
FAILED_MANIFEST_FETCH    == "fetch_manifest_failed"
NOT_SUPPORTED            == "not_supported"
FAILED_FIRMWARE_DOWNLOAD == "failed_firmware_download"
WRITE_FAILED             == "write_failed"

\* the values of `chipFamily` in flash(), and of Build.chipFamily
ChipFamilies      == {"ESP32", "ESP8266", "ESP32-S2", "Unknown Chip"}
BuildChipFamilies == {"ESP32", "ESP8266"}

\* a JavaScript `undefined`
Undefined == [undefined |-> TRUE]

\* Math.floor of a division by zero (0 / 0) is NaN; NaN is encoded as -1 and
\* is never === to anything, itself included
NaN == -1

\* Build.parts: part i of the b-th build has its own file and its own
\* absolute offset
Part(b, i) ==
  [path   |-> "build" \o ToString(b) \o "/part" \o ToString(i) \o ".bin",
   offset |-> (i - 1) * 4096]

\* interface Build: the b-th build of a manifest, for chip family c, with n
\* parts
Build(b, c, n) ==
  [chipFamily |-> c, improv |-> FALSE, parts |-> [i \in 1..n |-> Part(b, i)]]

\* the chip families of the builds of a manifest, in manifest order
BuildFamilies == UNION { [1..k -> BuildChipFamilies] : k \in 0..MaxBuilds }

\* interface Manifest: up to MaxBuilds builds, of up to MaxParts parts each
Manifest ==
  { [name |-> "Test",
     builds |-> [b \in 1..Len(cs) |-> Build(b, cs[b], n)]] :
      cs \in BuildFamilies, n \in 0..MaxParts }

\* ----------------------------------------------------------------- state
VARIABLES
  pc,            \* the suspension point flash() is at
  outcome,       \* "running", "returned" or "threw" (the promise rejected)
  eraseFirst,    \* parameter of flash()
  log,           \* events fired and collaborator calls, in program order
  manifestProm,  \* the promise of the manifest fetch
  connected,     \* esploader.connected
  chipFamily, manifest, build,       \* the closure's context variables
  filePromises,  \* one promise per part of the build
  promIdx,       \* position of `for (const prom of filePromises)`
  files, totalSize,
  lastPct, totalWritten,
  partIdx,       \* position of `for (const part of build.parts)`
  file,          \* the buffer handed to the flashData call in progress
  position,      \* bytes of it the device has reported as written
  chunks         \* progress callbacks delivered so far

vars == <<pc, outcome, eraseFirst, log, manifestProm, connected, chipFamily,
          manifest, build, filePromises, promIdx, files, totalSize, lastPct,
          totalWritten, partIdx, file, position, chunks>>

ctxVars   == <<chipFamily, manifest, build>>
loadVars  == <<promIdx, files, totalSize>>
writeVars == <<lastPct, totalWritten, partIdx, file, position, chunks>>

\* ------------------------------------------------------------- promises
Pending      == [status |-> "pending",   value |-> Undefined]
Fulfilled(v) == [status |-> "fulfilled", value |-> v]
Rejected(e)  == [status |-> "rejected",  value |-> e]
NotStarted   == [status |-> "none",      value |-> Undefined]

\* ---------------------------------------------------------- log entries
Call(op, arg)   == [kind |-> "call",  op |-> op, arg |-> arg]
Return(op, arg) == [kind |-> "ret",   op |-> op, arg |-> arg]
Throw(op, arg)  == [kind |-> "throw", op |-> op, arg |-> arg]

\* fireStateEvent: the update, with the context variables spread over it
FireStateEvent(l, stateUpdate, m, b, c) ==
  Append(l, [kind |-> "state", state |-> stateUpdate.state,
             message |-> stateUpdate.message, details |-> stateUpdate.details,
             manifest |-> m, build |-> b, chipFamily |-> c])

\* Fire, had the event carried the update alone
FireUpdateOnly(l, stateUpdate) ==
  FireStateEvent(l, stateUpdate, Undefined, Undefined, "undefined")

Fire(l, stateUpdate) ==
  FireStateEvent(l, stateUpdate, manifest, build, chipFamily)

Update(s, msg, d) == [state |-> s, message |-> msg, details |-> d]

Done(b) == [done |-> b]

ErrorDetails(e, d) == [error |-> e, details |-> d]

Progress(total, written, pct) ==
  [bytesTotal |-> total, bytesWritten |-> written, percentage |-> pct]

\* ------------------------------------------------------------------ Init
Init ==
  /\ pc = "start"
  /\ outcome = "running"
  /\ eraseFirst \in BOOLEAN
  /\ log = <<>>
  /\ manifestProm = NotStarted
  /\ connected = FALSE
  /\ chipFamily = "undefined"
  /\ manifest = Undefined
  /\ build = Undefined
  /\ filePromises = <<>>
  /\ promIdx = 0
  /\ files = <<>>
  /\ totalSize = 0
  /\ lastPct = 0
  /\ totalWritten = 0
  /\ partIdx = 0
  /\ file = Undefined
  /\ position = 0
  /\ chunks = 0

\* ------------------------------------------------------------- run start
\* Start, had the manifest fetch been started only after the call of connect
StartConnectsFirst ==
  /\ pc = "start"
  /\ manifestProm' = Pending
  /\ log' = log \o <<Call("connect", Undefined), Call("fetch", "manifest")>>
  /\ pc' = "connect"
  /\ UNCHANGED <<outcome, eraseFirst, connected, ctxVars, filePromises,
                 loadVars, writeVars>>

\* lines 24-32: the manifest fetch is started, then connect is called
Start ==
  /\ pc = "start"
  /\ manifestProm' = Pending
  /\ log' = log \o <<Call("fetch", "manifest"), Call("connect", Undefined)>>
  /\ pc' = "connect"
  /\ UNCHANGED <<outcome, eraseFirst, connected, ctxVars, filePromises,
                 loadVars, writeVars>>

\* the manifest fetch settles, at any time after it was started
ManifestFetchResolve ==
  /\ manifestProm.status = "pending"
  /\ \E m \in Manifest : manifestProm' = Fulfilled(m)
  /\ UNCHANGED <<pc, outcome, eraseFirst, log, connected, ctxVars,
                 filePromises, loadVars, writeVars>>

ManifestFetchReject ==
  /\ manifestProm.status = "pending"
  /\ manifestProm' = Rejected("manifest fetch error")
  /\ UNCHANGED <<pc, outcome, eraseFirst, log, connected, ctxVars,
                 filePromises, loadVars, writeVars>>

\* ConnectReject, had the catch block reported the cancellation as an error
\* instead of returning silently
ConnectRejectFiresError ==
  /\ pc = "connect"
  /\ log' = Fire(Append(log, Throw("connect", "cancelled")),
                 Update(ERROR, "cancelled",
                        ErrorDetails(FAILED_INITIALIZING, "cancelled")))
  /\ pc' = "done"
  /\ outcome' = "returned"
  /\ UNCHANGED <<eraseFirst, manifestProm, connected, ctxVars, filePromises,
                 loadVars, writeVars>>

\* lines 33-36: the user pressed cancel, flash() returns
ConnectReject ==
  /\ pc = "connect"
  /\ log' = Append(log, Throw("connect", "cancelled"))
  /\ pc' = "done"
  /\ outcome' = "returned"
  /\ UNCHANGED <<eraseFirst, manifestProm, connected, ctxVars, filePromises,
                 loadVars, writeVars>>

\* lines 32-48
ConnectResolve ==
  /\ pc = "connect"
  /\ connected' = TRUE
  /\ log' = Append(Fire(Append(log, Return("connect", Undefined)),
                        Update(INITIALIZING, "initializing", Done(FALSE))),
                   Call("initialize", Undefined))
  /\ pc' = "initialize"
  /\ UNCHANGED <<outcome, eraseFirst, manifestProm, ctxVars, filePromises,
                 loadVars, writeVars>>

\* lines 49-61: the handshake failed; the Error state and the disconnect are
\* both inside `if (esploader.connected)`
InitializeReject ==
  /\ pc = "initialize"
  /\ \E c \in BOOLEAN :
       /\ connected' = c
       /\ LET l == Append(log, Throw("initialize", c)) IN
          IF c
            THEN /\ log' = Append(Fire(l, Update(ERROR, "cannot initialize",
                                   ErrorDetails(FAILED_INITIALIZING, "err"))),
                                  Call("disconnect", Undefined))
                 /\ pc' = "disconnect"
                 /\ outcome' = outcome
            ELSE /\ log' = l
                 /\ pc' = "done"
                 /\ outcome' = "returned"
  /\ UNCHANGED <<eraseFirst, manifestProm, ctxVars, filePromises, loadVars,
                 writeVars>>

\* lines 63-77: the chip family is read from the device, two states are fired
\* and the manifest promise is awaited
InitializeResolve ==
  /\ pc = "initialize"
  /\ \E c \in ChipFamilies :
       /\ chipFamily' = c
       /\ log' = FireStateEvent(
                   FireStateEvent(Append(log, Return("initialize", Undefined)),
                                  Update(INITIALIZING, "initialized", Done(TRUE)),
                                  manifest, build, c),
                   Update(MANIFEST, "looking for firmware", Done(FALSE)),
                   manifest, build, c)
  /\ pc' = "manifest"
  /\ UNCHANGED <<outcome, eraseFirst, manifestProm, connected, manifest,
                 build, filePromises, loadVars, writeVars>>

\* DisconnectResolve, had the error paths fallen through to the end of
\* flash() instead of returning
DisconnectResolveThenFinished ==
  /\ pc = "disconnect"
  /\ connected' = FALSE
  /\ log' = Fire(Append(log, Return("disconnect", Undefined)),
                 [state |-> FINISHED, message |-> "all done",
                  details |-> Undefined])
  /\ pc' = "done"
  /\ outcome' = "returned"
  /\ UNCHANGED <<eraseFirst, manifestProm, ctxVars, filePromises, loadVars,
                 writeVars>>

\* `await esploader.disconnect()` on an error path (lines 58, 84, 102, 140,
\* 211), followed by `return`
DisconnectResolve ==
  /\ pc = "disconnect"
  /\ connected' = FALSE
  /\ log' = Append(log, Return("disconnect", Undefined))
  /\ pc' = "done"
  /\ outcome' = "returned"
  /\ UNCHANGED <<eraseFirst, manifestProm, ctxVars, filePromises, loadVars,
                 writeVars>>

\* the same await when disconnect rejects: nothing catches it
DisconnectReject ==
  /\ pc = "disconnect"
  /\ log' = Append(log, Throw("disconnect", "err"))
  /\ pc' = "done"
  /\ outcome' = "threw"
  /\ UNCHANGED <<eraseFirst, manifestProm, connected, ctxVars, filePromises,
                 loadVars, writeVars>>

\* lines 78-86
AwaitManifestReject ==
  /\ pc = "manifest"
  /\ manifestProm.status = "rejected"
  /\ log' = Append(Fire(Append(log, Throw("manifestProm", manifestProm.value)),
                        Update(ERROR, "firmware not found",
                               ErrorDetails(FAILED_MANIFEST_FETCH,
                                            manifestProm.value))),
                   Call("disconnect", Undefined))
  /\ pc' = "disconnect"
  /\ UNCHANGED <<outcome, eraseFirst, manifestProm, connected, ctxVars,
                 filePromises, loadVars, writeVars>>

\* Find, had the scan kept the last matching build instead of the first
RECURSIVE FindLastFrom(_, _, _)
FindLastFrom(builds, c, i) ==
  IF i < 1 THEN Undefined
  ELSE IF builds[i].chipFamily = c THEN builds[i]
  ELSE FindLastFrom(builds, c, i - 1)

FindLast(builds, c) == FindLastFrom(builds, c, Len(builds))

\* Array.prototype.find over manifest.builds (line 88): the first build
\* whose chipFamily is the detected one, or undefined
RECURSIVE FindFrom(_, _, _)
FindFrom(builds, c, i) ==
  IF i > Len(builds) THEN Undefined
  ELSE IF builds[i].chipFamily = c THEN builds[i]
  ELSE FindFrom(builds, c, i + 1)

Find(builds, c) == FindFrom(builds, c, 1)

\* StartDownloads, had no download been started before runStub
StartNoDownloads(l, parts) == l

\* lines 112-121: map() starts one fetch per part, in part order
StartDownloads(l, parts) ==
  l \o [i \in 1..Len(parts) |-> Call("fetch", parts[i].path)]

\* lines 77, 88-124
AwaitManifestResolve ==
  /\ pc = "manifest"
  /\ manifestProm.status = "fulfilled"
  /\ LET m  == manifestProm.value
         b  == Find(m.builds, chipFamily)
         l1 == FireStateEvent(Append(log, Return("manifestProm", m)),
                              Update(MANIFEST, "found manifest", Done(TRUE)),
                              m, b, chipFamily)
     IN
       /\ manifest' = m
       /\ build' = b
       /\ IF b = Undefined
            THEN /\ log' = Append(FireStateEvent(l1,
                                    Update(ERROR, "board not supported",
                                      ErrorDetails(NOT_SUPPORTED, chipFamily)),
                                    m, b, chipFamily),
                                  Call("disconnect", Undefined))
                 /\ pc' = "disconnect"
                 /\ filePromises' = filePromises
            ELSE /\ log' = Append(StartDownloads(
                                    FireStateEvent(l1,
                                      Update(PREPARING, "preparing", Done(FALSE)),
                                      m, b, chipFamily),
                                    b.parts),
                                  Call("runStub", Undefined))
                 /\ pc' = "runStub"
                 /\ filePromises' = [i \in 1..Len(b.parts) |-> Pending]
  /\ UNCHANGED <<outcome, eraseFirst, manifestProm, connected, chipFamily,
                 loadVars, writeVars>>

\* -------------------------------------------------------- part downloads
\* lines 113-120 for part i: the fetch resolved with resp.ok and the body, a
\* buffer of n bytes, was read
PartFetchOk(i) ==
  /\ i \in 1..Len(filePromises)
  /\ filePromises[i].status = "pending"
  /\ \E n \in 0..MaxSize :
       filePromises' = [filePromises EXCEPT ![i] =
         Fulfilled([path |-> build.parts[i].path, byteLength |-> n])]
  /\ UNCHANGED <<pc, outcome, eraseFirst, log, manifestProm, connected,
                 ctxVars, loadVars, writeVars>>

\* lines 115-119: the fetch resolved with a status that is not a success
PartFetchNotOk(i) ==
  /\ i \in 1..Len(filePromises)
  /\ filePromises[i].status = "pending"
  /\ filePromises' = [filePromises EXCEPT ![i] =
       Rejected([path |-> build.parts[i].path, reason |-> "status 404"])]
  /\ UNCHANGED <<pc, outcome, eraseFirst, log, manifestProm, connected,
                 ctxVars, loadVars, writeVars>>

\* line 114 or 120: fetch() or arrayBuffer() rejected
PartFetchReject(i) ==
  /\ i \in 1..Len(filePromises)
  /\ filePromises[i].status = "pending"
  /\ filePromises' = [filePromises EXCEPT ![i] =
       Rejected([path |-> build.parts[i].path, reason |-> "network error"])]
  /\ UNCHANGED <<pc, outcome, eraseFirst, log, manifestProm, connected,
                 ctxVars, loadVars, writeVars>>

\* ----------------------------------------------------------- write phase
\* NewPct, had the bytes of the parts already written been left out
NewPctOfPart(tw, bw, ts) ==
  IF ts = 0 THEN NaN ELSE (bw * 100) \div ts

\* line 185: Math.floor(((totalWritten + bytesWritten) / totalSize) * 100)
NewPct(tw, bw, ts) ==
  IF ts = 0 THEN NaN ELSE ((tw + bw) * 100) \div ts

\* lines 179-183 and 217-227: the head of the write loop with k - 1 parts
\* written; either the next flashData call or the final Writing state and
\* the settle delay
WriteLoop(l, k, fs, tw, ts) ==
  /\ partIdx' = k
  /\ totalWritten' = tw
  /\ position' = 0
  /\ IF k <= Len(build.parts)
       THEN /\ file' = Head(fs)
            /\ files' = Tail(fs)
            /\ log' = Append(l, Call("flashData",
                        [file |-> Head(fs), offset |-> build.parts[k].offset]))
            /\ pc' = "flashData"
       ELSE /\ file' = file
            /\ files' = fs
            /\ log' = Append(Fire(l, Update(WRITING, "flash success",
                                            Progress(ts, tw, 100))),
                             Call("sleep", 100))
            /\ pc' = "sleep"

\* lines 165-177
BeginWriting(l, fs, ts) ==
  /\ lastPct' = 0
  /\ WriteLoop(Fire(l, Update(WRITING, "progress", Progress(ts, 0, 0))),
               1, fs, 0, ts)

\* EraseRequested, had the erase branch ignored the flag
EraseAlways == TRUE

\* line 151: the erase branch is taken when eraseFirst is set
EraseRequested == eraseFirst

\* lines 145-157, reached with every download collected
AfterDownloads(l, fs, ts) ==
  /\ totalSize' = ts
  /\ LET l1 == Fire(l, Update(PREPARING, "prepared", Done(TRUE))) IN
     IF EraseRequested
       THEN /\ log' = Append(Fire(l1, Update(ERASING, "erasing", Done(FALSE))),
                             Call("eraseFlash", Undefined))
            /\ pc' = "eraseFlash"
            /\ files' = fs
            /\ UNCHANGED <<lastPct, totalWritten, partIdx, file, position>>
       ELSE BeginWriting(l1, fs, ts)

\* lines 129-133: the head of the download loop with k - 1 promises collected
DownloadLoop(l, k, fs, ts) ==
  /\ promIdx' = k
  /\ IF k <= Len(filePromises)
       THEN /\ log' = l
            /\ pc' = "download"
            /\ files' = fs
            /\ totalSize' = ts
            /\ UNCHANGED <<lastPct, totalWritten, partIdx, file, position>>
       ELSE AfterDownloads(l, fs, ts)

\* lines 124-129
RunStubResolve ==
  /\ pc = "runStub"
  /\ DownloadLoop(Append(log, Return("runStub", Undefined)), 1, <<>>, 0)
  /\ UNCHANGED <<outcome, eraseFirst, manifestProm, connected, ctxVars,
                 filePromises, chunks>>

\* line 124: runStub is awaited outside any try block
RunStubReject ==
  /\ pc = "runStub"
  /\ log' = Append(log, Throw("runStub", "err"))
  /\ pc' = "done"
  /\ outcome' = "threw"
  /\ UNCHANGED <<eraseFirst, manifestProm, connected, ctxVars, filePromises,
                 loadVars, writeVars>>

\* Push, had the buffer been put at the front of files
Unshift(fs, data) == <<data>> \o fs

\* line 132: files.push(data)
Push(fs, data) == Append(fs, data)

\* lines 131-133
AwaitFileResolve ==
  /\ pc = "download"
  /\ filePromises[promIdx].status = "fulfilled"
  /\ LET data == filePromises[promIdx].value IN
     DownloadLoop(Append(log, Return("filePromise", data)), promIdx + 1,
                  Push(files, data), totalSize + data.byteLength)
  /\ UNCHANGED <<outcome, eraseFirst, manifestProm, connected, ctxVars,
                 filePromises, chunks>>

\* lines 134-142
AwaitFileReject ==
  /\ pc = "download"
  /\ filePromises[promIdx].status = "rejected"
  /\ LET err == filePromises[promIdx].value IN
     log' = Append(Fire(Append(log, Throw("filePromise", err)),
                        Update(ERROR, err,
                               ErrorDetails(FAILED_FIRMWARE_DOWNLOAD, err))),
                   Call("disconnect", Undefined))
  /\ pc' = "disconnect"
  /\ UNCHANGED <<outcome, eraseFirst, manifestProm, connected, ctxVars,
                 filePromises, loadVars, writeVars>>

\* lines 157-177
EraseFlashResolve ==
  /\ pc = "eraseFlash"
  /\ BeginWriting(Fire(Append(log, Return("eraseFlash", Undefined)),
                       Update(ERASING, "erased", Done(TRUE))),
                  files, totalSize)
  /\ UNCHANGED <<outcome, eraseFirst, manifestProm, connected, ctxVars,
                 filePromises, promIdx, totalSize, chunks>>

\* line 157: eraseFlash is awaited outside any try block
EraseFlashReject ==
  /\ pc = "eraseFlash"
  /\ log' = Append(log, Throw("eraseFlash", "err"))
  /\ pc' = "done"
  /\ outcome' = "threw"
  /\ UNCHANGED <<eraseFirst, manifestProm, connected, ctxVars, filePromises,
                 loadVars, writeVars>>

\* SamePct, had the callback not compared with the last percentage
NeverSamePct(newPct, last) == FALSE

\* line 188: newPct === lastPct, which NaN never satisfies
SamePct(newPct, last) == newPct # NaN /\ newPct = last

\* lines 184-201: the device reports bw bytes of the current file written,
\* a count that never decreases during one flashData call
ProgressCallback ==
  /\ pc = "flashData"
  /\ chunks < MaxChunks
  /\ chunks' = chunks + 1
  /\ \E bw \in position..file.byteLength :
       /\ position' = bw
       /\ LET newPct == NewPct(totalWritten, bw, totalSize) IN
          IF SamePct(newPct, lastPct)
            THEN UNCHANGED <<lastPct, log>>
            ELSE /\ lastPct' = newPct
                 /\ log' = Fire(log, Update(WRITING, "progress",
                             Progress(totalSize, totalWritten + bw, newPct)))
  /\ UNCHANGED <<pc, outcome, eraseFirst, manifestProm, connected, ctxVars,
                 filePromises, loadVars, totalWritten, partIdx, file>>

\* FlashDataResolve, had the loop not added the part's size to totalWritten
FlashDataResolveKeepsTotalWritten ==
  /\ pc = "flashData"
  /\ WriteLoop(Append(log, Return("flashData", Undefined)), partIdx + 1,
               files, totalWritten, totalSize)
  /\ UNCHANGED <<outcome, eraseFirst, manifestProm, connected, ctxVars,
                 filePromises, promIdx, totalSize, lastPct, chunks>>

\* lines 214, 179-183, 217-227
FlashDataResolve ==
  /\ pc = "flashData"
  /\ WriteLoop(Append(log, Return("flashData", Undefined)), partIdx + 1,
               files, totalWritten + file.byteLength, totalSize)
  /\ UNCHANGED <<outcome, eraseFirst, manifestProm, connected, ctxVars,
                 filePromises, promIdx, totalSize, lastPct, chunks>>

\* lines 205-212
FlashDataReject ==
  /\ pc = "flashData"
  /\ log' = Append(Fire(Append(log, Throw("flashData", "err")),
                        Update(ERROR, "err", ErrorDetails(WRITE_FAILED, "err"))),
                   Call("disconnect", Undefined))
  /\ pc' = "disconnect"
  /\ UNCHANGED <<outcome, eraseFirst, manifestProm, connected, ctxVars,
                 filePromises, loadVars, writeVars>>

\* lines 227-228: the settle delay elapsed
SleepResolve ==
  /\ pc = "sleep"
  /\ log' = log \o <<Return("sleep", Undefined), Call("hardReset", Undefined)>>
  /\ pc' = "hardReset"
  /\ UNCHANGED <<outcome, eraseFirst, manifestProm, connected, ctxVars,
                 filePromises, loadVars, writeVars>>

\* lines 228-229
HardResetResolve ==
  /\ pc = "hardReset"
  /\ log' = log \o <<Return("hardReset", Undefined),
                     Call("disconnect", Undefined)>>
  /\ pc' = "finalDisconnect"
  /\ UNCHANGED <<outcome, eraseFirst, manifestProm, connected, ctxVars,
                 filePromises, loadVars, writeVars>>

\* HardResetReject, had the rejection of hardReset been swallowed
HardResetRejectIgnored ==
  /\ pc = "hardReset"
  /\ log' = log \o <<Throw("hardReset", "err"), Call("disconnect", Undefined)>>
  /\ pc' = "finalDisconnect"
  /\ UNCHANGED <<outcome, eraseFirst, manifestProm, connected, ctxVars,
                 filePromises, loadVars, writeVars>>

\* line 228: hardReset is awaited outside any try block
HardResetReject ==
  /\ pc = "hardReset"
  /\ log' = Append(log, Throw("hardReset", "err"))
  /\ pc' = "done"
  /\ outcome' = "threw"
  /\ UNCHANGED <<eraseFirst, manifestProm, connected, ctxVars, filePromises,
                 loadVars, writeVars>>

\* lines 229-234
FinalDisconnectResolve ==
  /\ pc = "finalDisconnect"
  /\ connected' = FALSE
  /\ log' = Fire(Append(log, Return("disconnect", Undefined)),
                 [state |-> FINISHED, message |-> "all done",
                  details |-> Undefined])
  /\ pc' = "done"
  /\ outcome' = "returned"
  /\ UNCHANGED <<eraseFirst, manifestProm, ctxVars, filePromises, loadVars,
                 writeVars>>

\* line 229: disconnect is awaited outside any try block
FinalDisconnectReject ==
  /\ pc = "finalDisconnect"
  /\ log' = Append(log, Throw("disconnect", "err"))
  /\ pc' = "done"
  /\ outcome' = "threw"
  /\ UNCHANGED <<eraseFirst, manifestProm, connected, ctxVars, filePromises,
                 loadVars, writeVars>>

Next ==
  \/ \E i \in 1..MaxParts : PartFetchOk(i)
  \/ \E i \in 1..MaxParts : PartFetchNotOk(i)
  \/ \E i \in 1..MaxParts : PartFetchReject(i)
  \/ RunStubResolve
  \/ RunStubReject
  \/ AwaitFileResolve
  \/ AwaitFileReject
  \/ EraseFlashResolve
  \/ EraseFlashReject
  \/ ProgressCallback
  \/ FlashDataResolve
  \/ FlashDataReject
  \/ SleepResolve
  \/ HardResetResolve
  \/ HardResetReject
  \/ FinalDisconnectResolve
  \/ FinalDisconnectReject
  \/ InitializeReject
  \/ InitializeResolve
  \/ DisconnectResolve
  \/ DisconnectReject
  \/ AwaitManifestReject
  \/ AwaitManifestResolve
  \/ Start
  \/ ManifestFetchResolve
  \/ ManifestFetchReject
  \/ ConnectReject
  \/ ConnectResolve

Spec == Init /\ [][Next]_vars

\* ------------------------------------------------- reading the run's log
IsState(e) == e.kind = "state"

\* the state-changed events fired so far, in order
Events == SelectSeq(log, IsState)

IsTerminal(e) == e.state \in {ERROR, FINISHED}

Called(op) == \E i \in 1..Len(log) : log[i].kind = "call" /\ log[i].op = op

Threw(op) == \E i \in 1..Len(log) : log[i].kind = "throw" /\ log[i].op = op

NumCalls(op) ==
  Cardinality({ i \in 1..Len(log) : log[i].kind = "call" /\ log[i].op = op })

\* the number of events fired before log position i
EventsBefore(i) == Len(SelectSeq(SubSeq(log, 1, i - 1), IsState))

IsDone(e, s, d) == e.state = s /\ e.details = Done(d)

IsError(e, err) == e.state = ERROR /\ e.details.error = err

Ended == outcome # "running"

\* the calls made on the device connection after connect
DeviceOps == {"initialize", "runStub", "eraseFlash", "flashData",
              "hardReset", "disconnect"}

\* ---------------------------------------------------------------- claims

\* C1: once an Error or the Finished state has been fired, no further
\* state-changed event is fired in that run: a terminal state is always the
\* last event of the log.
C1_NothingAfterTerminal ==
  \A i \in 1..Len(Events) : IsTerminal(Events[i]) => i = Len(Events)

\* C1 witness: a run that fired an Error, whose disconnect then rejected,
\* and that has ended.
C1_Witness ==
  /\ Ended
  /\ Len(Events) > 0
  /\ Events[Len(Events)].state = ERROR
  /\ Threw("disconnect")

\* a run in which no device or network operation failed and a build was
\* selected
NoFailure ==
  /\ Ended
  /\ \A i \in 1..Len(log) : log[i].kind # "throw"
  /\ build # Undefined

\* the number of phase events before Writing(0%)
PhaseEvents == IF eraseFirst THEN 8 ELSE 6

\* C2: a run without failure fires exactly Initializing x2, Manifest x2,
\* Preparing x2, Erasing x2 iff eraseFirst (eraseFlash called once, between
\* the two), Writing(0%), any number of Writing states, Writing(100%),
\* Finished.
C2_SuccessSequence ==
  NoFailure =>
    LET ev == Events
        n  == Len(ev)
        h  == PhaseEvents
    IN  /\ n >= h + 3
        /\ IsDone(ev[1], INITIALIZING, FALSE)
        /\ IsDone(ev[2], INITIALIZING, TRUE)
        /\ IsDone(ev[3], MANIFEST, FALSE)
        /\ IsDone(ev[4], MANIFEST, TRUE)
        /\ IsDone(ev[5], PREPARING, FALSE)
        /\ IsDone(ev[6], PREPARING, TRUE)
        /\ eraseFirst => /\ IsDone(ev[7], ERASING, FALSE)
                         /\ IsDone(ev[8], ERASING, TRUE)
        /\ NumCalls("eraseFlash") = (IF eraseFirst THEN 1 ELSE 0)
        /\ \A i \in 1..Len(log) :
             (log[i].kind = "call" /\ log[i].op = "eraseFlash")
               => EventsBefore(i) = 7
        /\ ev[h + 1].state = WRITING
        /\ ev[h + 1].details.percentage = 0
        /\ ev[h + 1].details.bytesWritten = 0
        /\ \A i \in (h + 2)..(n - 2) : ev[i].state = WRITING
        /\ ev[n - 1].state = WRITING
        /\ ev[n - 1].details.percentage = 100
        /\ ev[n].state = FINISHED

\* C2 witness: a finished run with the erase branch and at least one
\* intermediate Writing state.
C2_Witness ==
  /\ NoFailure
  /\ eraseFirst
  /\ Len(Events) >= 12

\* C3: every run that got past connect ends with exactly one terminal state,
\* which is the last event fired.
C3_EndsInTerminalState ==
  (Ended /\ ~Threw("connect")) =>
    /\ Len(Events) > 0
    /\ IsTerminal(Events[Len(Events)])
    /\ Cardinality({ i \in 1..Len(Events) : IsTerminal(Events[i]) }) = 1

\* C4: flash() never terminates by throwing.
C4_NeverThrows == outcome # "threw"

\* no build of the fetched manifest matched the detected chip
SelectionFailed == manifest # Undefined /\ build = Undefined

\* an operation failed after a successful connect (initialize counts only
\* when the connection was still connected)
FailedAfterConnect ==
  \/ \E i \in 1..Len(log) :
       /\ log[i].kind = "throw"
       /\ \/ log[i].op \in {"manifestProm", "runStub", "filePromise",
                            "eraseFlash", "flashData", "hardReset"}
          \/ log[i].op = "initialize" /\ log[i].arg = TRUE
  \/ SelectionFailed

\* C5: on every such path disconnect is called before flash() terminates.
C5_DisconnectOnFailure ==
  (Ended /\ FailedAfterConnect) => Called("disconnect")

\* C6: a failed handshake ends the run in Error(FailedInitializing) as the
\* only state after Initializing(done=false), connected or not; disconnect
\* is called iff the connection was still connected.
C6_InitializeFailure ==
  \A i \in 1..Len(log) :
    (log[i].kind = "throw" /\ log[i].op = "initialize") =>
      /\ Len(Events) = 2
      /\ IsDone(Events[1], INITIALIZING, FALSE)
      /\ IsError(Events[2], FAILED_INITIALIZING)
      /\ Called("disconnect") <=> log[i].arg

\* b is the first build, in manifest order, whose chipFamily is c
IsFirstMatch(builds, c, b) ==
  \E i \in 1..Len(builds) :
    /\ builds[i] = b
    /\ builds[i].chipFamily = c
    /\ \A j \in 1..(i - 1) : builds[j].chipFamily # c

NoMatch(builds, c) == \A i \in 1..Len(builds) : builds[i].chipFamily # c

\* C7: from Manifest(done=true) on, the build attached to the fired states is
\* the first build matching the detected chip; without a match the run fires
\* Manifest(done=true), then one Error(NotSupported) carrying the chip
\* family, calls disconnect and fires nothing else.
C7_BuildSelection ==
  manifest # Undefined =>
    LET ev == Events IN
    /\ Len(ev) >= 4
    /\ \A k \in 4..Len(ev) :
         IF NoMatch(manifest.builds, chipFamily)
           THEN ev[k].build = Undefined
           ELSE IsFirstMatch(manifest.builds, chipFamily, ev[k].build)
    /\ NoMatch(manifest.builds, chipFamily) =>
         /\ Len(ev) = 5
         /\ IsDone(ev[4], MANIFEST, TRUE)
         /\ IsError(ev[5], NOT_SUPPORTED)
         /\ ev[5].details.details = chipFamily
         /\ Called("disconnect")

\* C7 witness: two different builds match the detected chip and the states
\* carry the first of them.
C7_Witness ==
  /\ manifest # Undefined
  /\ Len(manifest.builds) = 2
  /\ manifest.builds[1].chipFamily = chipFamily
  /\ manifest.builds[2].chipFamily = chipFamily
  /\ manifest.builds[1] # manifest.builds[2]
  /\ Len(Events) >= 5
  /\ Events[5].build = manifest.builds[1]

\* C8: if a part download fails, the run ends in
\* Error(FailedFirmwareDownload) with no Preparing(done=true), Erasing or
\* Writing state fired and no eraseFlash or flashData call made.
C8_DownloadFailure ==
  (Ended /\ \E i \in 1..Len(filePromises) :
              filePromises[i].status = "rejected") =>
    /\ Len(Events) > 0
    /\ IsError(Events[Len(Events)], FAILED_FIRMWARE_DOWNLOAD)
    /\ \A k \in 1..Len(Events) :
         /\ ~IsDone(Events[k], PREPARING, TRUE)
         /\ Events[k].state \notin {ERASING, WRITING}
    /\ ~Called("eraseFlash")
    /\ ~Called("flashData")

\* C9: if a flashData call fails, the run fires exactly one
\* Error(WriteFailed), calls disconnect, makes no further flashData call,
\* fires neither Writing(100%) nor Finished and does not call hardReset.
C9_WriteFailure ==
  \A i \in 1..Len(log) :
    (log[i].kind = "throw" /\ log[i].op = "flashData") =>
      /\ Cardinality({ k \in 1..Len(Events) : Events[k].state = ERROR }) = 1
      /\ IsError(Events[Len(Events)], WRITE_FAILED)
      /\ Called("disconnect")
      /\ \A j \in (i + 1)..Len(log) :
           ~(log[j].kind = "call" /\ log[j].op = "flashData")
      /\ \A k \in 1..Len(Events) :
           /\ Events[k].state # FINISHED
           /\ Events[k].state = WRITING => Events[k].details.percentage # 100
      /\ ~Called("hardReset")

\* C10: a cancelled connect ends the run with no state-changed event fired
\* and no device call made, whatever the manifest fetch does.
C10_CancelIsSilent ==
  Threw("connect") =>
    /\ Ended
    /\ Events = <<>>
    /\ \A i \in 1..Len(log) :
         log[i].kind = "call" => log[i].op \notin DeviceOps

\* C10 witness: connect was cancelled and the manifest fetch failed.
C10_Witness ==
  /\ Threw("connect")
  /\ manifestProm.status = "rejected"

IsWriting(e) == e.kind = "state" /\ e.state = WRITING

\* the Writing states fired so far, in order
Writings == SelectSeq(log, IsWriting)

\* C11: the percentages of the Writing states fired hold no two consecutive
\* equal values (NaN is equal to nothing) and the value 100 at most once,
\* exactly once in a run without failure, also when the last progress
\* callback already computed 100.
C11_NoDuplicatePercentage ==
  LET w == Writings IN
  /\ \A i \in 1..(Len(w) - 1) :
       w[i].details.percentage = w[i + 1].details.percentage
         => w[i].details.percentage = NaN
  /\ Cardinality({ i \in 1..Len(w) : w[i].details.percentage = 100 }) <= 1
  /\ NoFailure => \E i \in 1..Len(w) : w[i].details.percentage = 100

\* C12: with bytesTotal > 0 (and the byte counts reported during one
\* flashData call never decreasing nor exceeding the part's size), the
\* percentages of the Writing states fired never decrease.
C12_PercentageNonDecreasing ==
  LET w == Writings IN
  \A i \in 1..Len(w) : \A j \in i..Len(w) :
    w[i].details.bytesTotal > 0
      => w[i].details.percentage <= w[j].details.percentage

\* C12 witness: a finished run of two parts with a progress update in the
\* second part: 0%, 50%, 100%.
C12_Witness ==
  /\ NoFailure
  /\ Len(Writings) = 3
  /\ Writings[2].details.percentage = 50
  /\ \E i \in 1..Len(log) :
       /\ log[i].kind = "state" /\ log[i].state = WRITING
       /\ log[i].details.percentage = 50
       /\ Cardinality({ j \in 1..i :
             log[j].kind = "call" /\ log[j].op = "flashData" }) = 2

\* the run has reached the write phase
InWritePhase == Len(Writings) > 0

\* C13: a run that reaches the write phase fires a Writing state with
\* percentage 0 and bytesWritten 0 exactly once, before the first flashData
\* call; a progress callback that computes 0 fires no other one.
C13_OneInitialWriting ==
  InWritePhase =>
    /\ Writings[1].details.percentage = 0
    /\ Writings[1].details.bytesWritten = 0
    /\ \A i \in 2..Len(Writings) : Writings[i].details.percentage # 0
    /\ \A i \in 1..Len(log) :
         (log[i].kind = "call" /\ log[i].op = "flashData")
           => \E j \in 1..(i - 1) :
                IsWriting(log[j]) /\ log[j].details.percentage = 0

\* C13 witness: a progress callback computed 0 (no byte of a non-empty build
\* written yet) and the initial state is still the only Writing state.
C13_Witness ==
  /\ pc = "flashData"
  /\ totalSize > 0
  /\ chunks > 0
  /\ NewPct(totalWritten, position, totalSize) = 0
  /\ Len(Writings) = 1

\* C14: chipFamily, manifest and build, once carried by a fired state, are
\* carried with the same value by every later state, Error states included:
\* chipFamily from Initializing(done=true) on, manifest and (when one
\* matches) build from Manifest(done=true) on.
C14_ContextPersists ==
  LET ev == Events IN
  \A i \in 1..Len(ev) : \A j \in i..Len(ev) :
    /\ ev[i].chipFamily # "undefined" => ev[j].chipFamily = ev[i].chipFamily
    /\ ev[i].manifest # Undefined => ev[j].manifest = ev[i].manifest
    /\ ev[i].build # Undefined => ev[j].build = ev[i].build
    /\ IsDone(ev[i], INITIALIZING, TRUE) => ev[j].chipFamily \in ChipFamilies
    /\ IsDone(ev[i], MANIFEST, TRUE) =>
         /\ ev[j].manifest \in Manifest
         /\ ~NoMatch(ev[j].manifest.builds, ev[j].chipFamily)
              => ev[j].build # Undefined

\* C14 witness: an Error(WriteFailed) state carrying the chip family, the
\* manifest and the build that Manifest(done=true) carried.
C14_Witness ==
  /\ Len(Events) > 5
  /\ IsError(Events[Len(Events)], WRITE_FAILED)
  /\ Events[Len(Events)].build # Undefined
  /\ Events[Len(Events)].build = Events[4].build
  /\ Events[Len(Events)].manifest = Events[4].manifest
  /\ Events[Len(Events)].chipFamily = Events[2].chipFamily

\* the rejection of part i's download was caught by the await of line 131
FileRejectionCaught(i) ==
  \E k \in 1..Len(log) :
    /\ log[k].kind = "throw"
    /\ log[k].op = "filePromise"
    /\ log[k].arg = filePromises[i].value

\* C15: when the run has ended, every manifest-fetch or part-download promise
\* that rejected has been awaited inside a guard; none is left as an
\* unhandled rejection.
C15_NoUnhandledRejection ==
  Ended =>
    /\ manifestProm.status = "rejected" => Threw("manifestProm")
    /\ \A i \in 1..Len(filePromises) :
         filePromises[i].status = "rejected" => FileRejectionCaught(i)

Returned(op) == \E i \in 1..Len(log) : log[i].kind = "ret" /\ log[i].op = op

IsManifestFetch(e) == e.kind = "call" /\ e.op = "fetch" /\ e.arg = "manifest"

\* C16: the manifest fetch is started before connect is called; its outcome
\* is consumed only after Initializing(done=true) and Manifest(done=false)
\* were fired; whenever it rejected and the handshake succeeded, the states
\* are Initializing(false), Initializing(true), Manifest(false),
\* Error(FailedManifestFetch), followed by the disconnect call; after a failed
\* handshake no Error(FailedManifestFetch) is fired.
C16_ManifestFetchOrder ==
  /\ \A i \in 1..Len(log) :
       (log[i].kind = "call" /\ log[i].op = "connect")
         => \E j \in 1..(i - 1) : IsManifestFetch(log[j])
  /\ \A i \in 1..Len(log) :
       (log[i].kind \in {"ret", "throw"} /\ log[i].op = "manifestProm") =>
         /\ EventsBefore(i) = 3
         /\ IsDone(Events[2], INITIALIZING, TRUE)
         /\ IsDone(Events[3], MANIFEST, FALSE)
  /\ (manifestProm.status = "rejected" /\ Returned("initialize")
        /\ pc # "manifest") =>
         /\ Len(Events) = 4
         /\ IsDone(Events[1], INITIALIZING, FALSE)
         /\ IsDone(Events[2], INITIALIZING, TRUE)
         /\ IsDone(Events[3], MANIFEST, FALSE)
         /\ IsError(Events[4], FAILED_MANIFEST_FETCH)
         /\ \E i \in 1..(Len(log) - 1) :
              /\ log[i].kind = "state" /\ log[i].state = ERROR
              /\ log[i + 1].kind = "call" /\ log[i + 1].op = "disconnect"
  /\ Threw("initialize") =>
       \A k \in 1..Len(Events) : ~IsError(Events[k], FAILED_MANIFEST_FETCH)

\* C16 witness: the manifest fetch rejected, the handshake succeeded and the
\* rejection was consumed: Error(FailedManifestFetch), then disconnect.
C16_Witness ==
  /\ manifestProm.status = "rejected"
  /\ Threw("manifestProm")
  /\ IsError(Events[Len(Events)], FAILED_MANIFEST_FETCH)
  /\ Called("disconnect")

IsPartFetch(e) == e.kind = "call" /\ e.op = "fetch" /\ e.arg # "manifest"

IsFileAwait(e) == e.kind \in {"ret", "throw"} /\ e.op = "filePromise"

IsFileReturn(e) == e.kind = "ret" /\ e.op = "filePromise"

\* the part downloads started, and the buffers collected, in log order
PartFetches == SelectSeq(log, IsPartFetch)
Collected   == SelectSeq(log, IsFileReturn)

\* C17: every part download is started before runStub is called and before
\* any of them is awaited; the results are consumed in part order:
\* Error(FailedFirmwareDownload) reports the lowest-indexed failed part and
\* the i-th buffer collected is the data of the i-th part.
C17_DownloadsInPartOrder ==
  /\ \A r \in 1..Len(log) :
       ((log[r].kind = "call" /\ log[r].op = "runStub") \/ IsFileAwait(log[r]))
         => LET started == SelectSeq(SubSeq(log, 1, r - 1), IsPartFetch) IN
            /\ Len(started) = Len(build.parts)
            /\ \A i \in 1..Len(started) : started[i].arg = build.parts[i].path
  /\ \A k \in 1..Len(Events) :
       IsError(Events[k], FAILED_FIRMWARE_DOWNLOAD) =>
         \E i \in 1..Len(filePromises) :
           /\ filePromises[i].status = "rejected"
           /\ Events[k].details.details = filePromises[i].value
           /\ Events[k].details.details.path = build.parts[i].path
           /\ \A j \in 1..(i - 1) : filePromises[j].status = "fulfilled"
  /\ \A i \in 1..Len(Collected) :
       /\ Collected[i].arg = filePromises[i].value
       /\ Collected[i].arg.path = build.parts[i].path
  /\ pc \in {"download", "eraseFlash"} =>
       \A i \in 1..Len(files) : files[i] = Collected[i].arg

\* C17 witness: both parts of a build failed and the Error state reports the
\* first one.
C17_Witness ==
  /\ Len(filePromises) = 2
  /\ filePromises[1].status = "rejected"
  /\ filePromises[2].status = "rejected"
  /\ IsError(Events[Len(Events)], FAILED_FIRMWARE_DOWNLOAD)
  /\ Events[Len(Events)].details.details.path = build.parts[1].path

IsFlashCall(e) == e.kind = "call" /\ e.op = "flashData"

IsFlashReturn(e) == e.kind = "ret" /\ e.op = "flashData"

\* the flashData calls made so far, in order
FlashCalls == SelectSeq(log, IsFlashCall)

\* C18: flashData is called once per part, in manifest order, each call only
\* after the previous one has returned, with the bytes downloaded for that
\* part and that part's own offset.
C18_WritesInPartOrder ==
  build # Undefined =>
    /\ Len(FlashCalls) <= Len(build.parts)
    /\ NoFailure => Len(FlashCalls) = Len(build.parts)
    /\ \A k \in 1..Len(FlashCalls) :
         /\ FlashCalls[k].arg.file = filePromises[k].value
         /\ FlashCalls[k].arg.file.path = build.parts[k].path
         /\ FlashCalls[k].arg.offset = build.parts[k].offset
    /\ \A i \in 1..Len(log) :
         IsFlashCall(log[i]) =>
           Len(SelectSeq(SubSeq(log, 1, i - 1), IsFlashReturn))
             = Len(SelectSeq(SubSeq(log, 1, i - 1), IsFlashCall))

\* C18 witness: a finished run that wrote two parts, the second at its own
\* offset.
C18_Witness ==
  /\ NoFailure
  /\ Len(FlashCalls) = 2
  /\ FlashCalls[1].arg.offset # FlashCalls[2].arg.offset
  /\ FlashCalls[2].arg.file.path = build.parts[2].path

\* the sum of the sizes of the first n downloaded parts
RECURSIVE SumSizes(_)
SumSizes(n) ==
  IF n = 0 THEN 0 ELSE SumSizes(n - 1) + filePromises[n].value.byteLength

\* C19: every Writing state carries the same bytesTotal, the sum of the sizes
\* of all downloaded parts, and, when bytesTotal > 0, the percentage
\* floor(bytesWritten / bytesTotal * 100) of the bytesWritten it carries; the
\* final Writing state carries bytesWritten = bytesTotal.
C19_WritingDetails ==
  \A k \in 1..Len(Writings) :
    LET d == Writings[k].details IN
    /\ d.bytesTotal = SumSizes(Len(filePromises))
    /\ d.bytesTotal > 0 =>
         /\ d.percentage * d.bytesTotal <= d.bytesWritten * 100
         /\ d.bytesWritten * 100 < (d.percentage + 1) * d.bytesTotal
    /\ Writings[k].message = "flash success" => d.bytesWritten = d.bytesTotal

\* C19 witness: a finished run of two one-byte parts with a progress update at
\* 1 byte of 2, 50%.
C19_Witness ==
  /\ NoFailure
  /\ Len(Writings) >= 3
  /\ Writings[2].details = Progress(2, 1, 50)
  /\ Writings[Len(Writings)].details = Progress(2, 2, 100)

IsFinished(e) == e.kind = "state" /\ e.state = FINISHED

IsCallOf(e, op) == e.kind = "call" /\ e.op = op

IsReturnOf(e, op) == e.kind = "ret" /\ e.op = op

\* C20: the Finished state is fired only after a Writing state at 100%, and
\* only after hardReset and then disconnect were both called and completed,
\* in that order; no device call follows it, and the run that fires it fires
\* no Error state.
C20_FinishedLast ==
  \A i \in 1..Len(log) :
    IsFinished(log[i]) =>
      /\ i > 4
      /\ IsCallOf(log[i - 4], "hardReset")
      /\ IsReturnOf(log[i - 3], "hardReset")
      /\ IsCallOf(log[i - 2], "disconnect")
      /\ IsReturnOf(log[i - 1], "disconnect")
      /\ NumCalls("hardReset") = 1
      /\ NumCalls("disconnect") = 1
      /\ \E j \in 1..(i - 1) :
           IsWriting(log[j]) /\ log[j].details.percentage = 100
      /\ \A j \in (i + 1)..Len(log) : log[j].kind # "call"
      /\ \A j \in 1..Len(log) : IsState(log[j]) => log[j].state # ERROR

\* C20 witness: a run that fired the Finished state and returned, with the
\* device no longer connected.
C20_Witness ==
  /\ outcome = "returned"
  /\ ~connected
  /\ Len(Events) > 0
  /\ Events[Len(Events)].state = FINISHED
  /\ Called("hardReset")

====
